---- MODULE Spec2Model ----
(***************************************************************************)
(* Model of liualgotrader/common/database.py: the process-wide asyncpg     *)
(* connection pool (config.db_conn_pool) with its two coroutines,          *)
(* create_db_connection and fetch_as_dataframe.  Coroutines run under      *)
(* asyncio's cooperative scheduling: a step of the model is the code a     *)
(* task runs between two awaits that can suspend it.                       *)
(***************************************************************************)
EXTENDS FiniteSets, Integers, Sequences, TLC

(* ---- bounds of the model ---- *)
NumTasks == 2          \* concurrent callers, one call each
MaxCols == 2           \* declared output attributes of a statement
MaxRows == 2           \* rows one fetch returns

(* ---- program constants ---- *)
min_size == 2
max_size == 40

Tasks == 1..NumTasks
None == "None"         \* Python's None: an absent dsn, no exception
Absent == 0            \* config has no attribute db_conn_pool; no pool
NoValue == [kind |-> "None"]   \* nothing returned
Unset == "unset"       \* no create_db_connection frame: there is no dsn parameter
config_dsn == "dsn_config"
ExplicitDsns == {"", "dsn_explicit"}
ColNames == {"a", "b"}
RowIds == 1..3

(* ---- pure helpers ---- *)
RECURSIVE SeqsUpTo(_, _)
SeqsUpTo(S, n) ==
    IF n = 0 THEN {<<>>}
    ELSE LET shorter == SeqsUpTo(S, n - 1)
         IN  shorter \cup {Append(s, x) : s \in {q \in shorter : Len(q) = n - 1}, x \in S}

\* what a prepared statement can declare: attribute records, in declared order
Attributes == {[j \in 1..Len(s) |-> [name |-> s[j]]] : s \in SeqsUpTo(ColNames, MaxCols)}

\* the asyncpg Record of relation row r for a statement with n attributes:
\* values by position, no names
Record(r, n) == [j \in 1..n |-> 10 * r + j]

\* what stmt.fetch can return for a statement with n attributes
FetchResults(n) == {[i \in 1..Len(s) |-> Record(s[i], n)] : s \in SeqsUpTo(RowIds, MaxRows)}

\* the one query the concurrent callers of Spec run: a single attribute, and
\* no row or one
ConcAttributes == {<<[name |-> "a"]>>}
ConcFetchResults(n) == {<<>>, <<Record(1, n)>>}

\* Python truthiness of an optional string
Truthy(s) == s # None /\ s # ""

\* `dsn or config.dsn`
DsnOr_NotNone(dsn, fallback) == IF dsn # None THEN dsn ELSE fallback
DsnOr(dsn, fallback) == IF Truthy(dsn) THEN dsn ELSE fallback

\* pd.DataFrame(): no columns, no rows
EmptyDataFrame == [kind |-> "DataFrame", columns |-> <<>>, rows |-> <<>>]

\* pd.DataFrame(data=data, columns=columns): every record becomes a row that
\* maps the j-th column name to the record's j-th value
DataFrame(data, columns) ==
    [kind |-> "DataFrame", columns |-> columns,
     rows |-> [i \in 1..Len(data) |->
                 [j \in 1..Len(columns) |-> <<columns[j], data[i][j]>>]]]

\* [a.name for a in stmt.get_attributes()]
ColumnsOf(attrs) == [j \in 1..Len(attrs) |-> attrs[j].name]

\* the return expression of fetch_as_dataframe
Result_Always(data, columns) == DataFrame(data, columns)
Result_Reversed(data, columns) ==
    IF Len(data) > 0
    THEN DataFrame([i \in 1..Len(data) |-> data[Len(data) + 1 - i]], columns)
    ELSE EmptyDataFrame
Result(data, columns) ==
    IF data # <<>> /\ Len(data) > 0 THEN DataFrame(data, columns) ELSE EmptyDataFrame

(* ---- state ---- *)
VARIABLES
    db_conn_pool,   \* config.db_conn_pool: Absent or the id of a pool
    pools,          \* every pool object asyncpg.create_pool has made, by id;
                    \* .out is the set of tasks holding a connection of the pool
    tlog,           \* the lines written with tlog()
    task            \* per task: its call, position and locals; ref_at_release
                    \* records what config.db_conn_pool was when the call
                    \* gave its connection back

vars == <<db_conn_pool, pools, tlog, task>>

NoStmt == <<>>
IdleTask ==
    [pc |-> "idle", op |-> "none", dsn |-> Unset, inits |-> 0, created |-> Absent,
     acq |-> Absent, attrs |-> NoStmt, data |-> <<>>, ret |-> NoValue, err |-> None,
     ref_at_release |-> Absent]

Init ==
    /\ db_conn_pool = Absent
    /\ pools = <<>>
    /\ tlog = <<>>
    /\ task = [t \in Tasks |-> IdleTask]

\* the call is over: it returned ret or raised err (the record keeps the last
\* values of the call's locals)
Finished(r, pc, ret, err) == [r EXCEPT !.pc = pc, !.ret = ret, !.err = err]

(* ---- create_db_connection ---- *)

\* the call: `dsn or config.dsn` is evaluated and the task awaits
\* asyncpg.create_pool
EnterCreate(r, dsn) ==
    [r EXCEPT !.dsn = dsn, !.inits = r.inits + 1, !.pc = "create_pool"]

\* asyncpg.create_pool(dsn=..., min_size=2, max_size=40)
NewPool(dsn) ==
    [dsn |-> DsnOr(dsn, config_dsn), min_size |-> min_size, max_size |-> max_size,
     out |-> {}, closed |-> FALSE]

\* a task calls create_db_connection(dsn) itself
CallCreate(t, dsn) ==
    /\ task[t].pc = "idle"
    /\ task' = [task EXCEPT ![t] = EnterCreate([task[t] EXCEPT !.op = "create"], dsn)]
    /\ UNCHANGED <<db_conn_pool, pools, tlog>>

\* what the task does once create_db_connection has returned: a direct call is
\* over; fetch_as_dataframe goes on, without suspending, to evaluate
\* config.db_conn_pool.acquire() and awaits the connection
AfterCreate(r, pool) ==
    IF r.op = "create"
    THEN Finished([r EXCEPT !.created = pool], "done", NoValue, None)
    ELSE [r EXCEPT !.created = pool, !.acq = pool, !.pc = "acquire"]

\* create_pool returns: the reference is assigned and the line logged
CreatePoolOk_Guarded(t) ==
    /\ task[t].pc = "create_pool"
    /\ IF db_conn_pool # Absent
       THEN /\ task' = [task EXCEPT ![t] = AfterCreate(task[t], db_conn_pool)]
            /\ UNCHANGED <<db_conn_pool, pools, tlog>>
       ELSE /\ pools' = Append(pools, NewPool(task[t].dsn))
            /\ db_conn_pool' = Len(pools) + 1
            /\ tlog' = Append(tlog, "db connection pool initialized")
            /\ task' = [task EXCEPT ![t] = AfterCreate(task[t], Len(pools) + 1)]
CreatePoolOk_ClosesOld(t) ==
    /\ task[t].pc = "create_pool"
    /\ pools' = Append([p \in 1..Len(pools) |->
                          IF p = db_conn_pool
                          THEN [pools[p] EXCEPT !.closed = TRUE, !.out = {}]
                          ELSE pools[p]],
                       NewPool(task[t].dsn))
    /\ db_conn_pool' = Len(pools) + 1
    /\ tlog' = Append(tlog, "db connection pool initialized")
    /\ task' = [task EXCEPT ![t] = AfterCreate(task[t], Len(pools) + 1)]
CreatePoolOk(t) ==
    /\ task[t].pc = "create_pool"
    /\ pools' = Append(pools, NewPool(task[t].dsn))
    /\ db_conn_pool' = Len(pools) + 1
    /\ tlog' = Append(tlog, "db connection pool initialized")
    /\ task' = [task EXCEPT ![t] = AfterCreate(task[t], Len(pools) + 1)]

\* create_pool raises (bad dsn, unreachable database): nothing catches it
CreatePoolFail_Swallowed(t) ==
    /\ task[t].pc = "create_pool"
    /\ tlog' = Append(tlog, "db connection pool failed")
    /\ task' = [task EXCEPT ![t] = Finished(task[t], "done", NoValue, None)]
    /\ UNCHANGED <<db_conn_pool, pools>>
CreatePoolFail(t) ==
    /\ task[t].pc = "create_pool"
    /\ task' = [task EXCEPT ![t] = Finished(task[t], "raised", NoValue, "create_pool")]
    /\ UNCHANGED <<db_conn_pool, pools, tlog>>

(* ---- fetch_as_dataframe ---- *)

\* the try/except around config.db_conn_pool and what follows up to the first
\* await: create_db_connection() when the attribute is absent, else the
\* acquisition from the pool the reference names
EnterFetch_PassesDsn(r, ref) ==
    IF ref = Absent
    THEN EnterCreate([r EXCEPT !.op = "fetch"], "dsn_explicit")
    ELSE [r EXCEPT !.op = "fetch", !.acq = ref, !.pc = "acquire"]
EnterFetch(r, ref) ==
    IF ref = Absent
    THEN EnterCreate([r EXCEPT !.op = "fetch"], None)
    ELSE [r EXCEPT !.op = "fetch", !.acq = ref, !.pc = "acquire"]

CallFetch(t) ==
    /\ task[t].pc = "idle"
    /\ task' = [task EXCEPT ![t] = EnterFetch(task[t], db_conn_pool)]
    /\ UNCHANGED <<db_conn_pool, pools, tlog>>

\* `async with ... acquire() as con`: a connection of the pool is handed out
\* (the pool makes the task wait while max_size connections are out)
Acquire(t) ==
    /\ task[t].pc = "acquire"
    /\ task[t].acq \in 1..Len(pools)
    /\ Cardinality(pools[task[t].acq].out) < pools[task[t].acq].max_size
    /\ pools' = [pools EXCEPT ![task[t].acq].out = @ \cup {t}]
    /\ task' = [task EXCEPT ![t].pc = "prepare"]
    /\ UNCHANGED <<db_conn_pool, tlog>>

\* the acquisition raises: no connection was handed out
AcquireFail(t) ==
    /\ task[t].pc = "acquire"
    /\ task' = [task EXCEPT ![t] = Finished(task[t], "raised", NoValue, "acquire")]
    /\ UNCHANGED <<db_conn_pool, pools, tlog>>

\* con.prepare(query) returns the statement; the task awaits stmt.fetch
Prepare(t, attrs) ==
    /\ task[t].pc = "prepare"
    /\ task' = [task EXCEPT ![t].attrs = attrs, ![t].pc = "fetch"]
    /\ UNCHANGED <<db_conn_pool, pools, tlog>>

\* leaving the `async with` block, by return or by exception, awaits the
\* release of the connection
LeaveBlock_ErrorSkipsRelease(r, ret, err) ==
    IF err = None THEN [r EXCEPT !.ret = ret, !.err = err, !.pc = "release"]
    ELSE Finished(r, "raised", ret, err)
LeaveBlock(r, ret, err) == [r EXCEPT !.ret = ret, !.err = err, !.pc = "release"]

\* con.prepare raises (malformed query, connection failure)
PrepareFail(t) ==
    /\ task[t].pc = "prepare"
    /\ task' = [task EXCEPT ![t] = LeaveBlock(task[t], NoValue, "prepare")]
    /\ UNCHANGED <<db_conn_pool, pools, tlog>>

\* stmt.fetch(*args) returns the rows; the return value is computed
Fetch(t, data) ==
    /\ task[t].pc = "fetch"
    /\ task' = [task EXCEPT ![t] =
                  LeaveBlock([task[t] EXCEPT !.data = data],
                             Result(data, ColumnsOf(task[t].attrs)), None)]
    /\ UNCHANGED <<db_conn_pool, pools, tlog>>

\* stmt.fetch raises
FetchFail(t) ==
    /\ task[t].pc = "fetch"
    /\ task' = [task EXCEPT ![t] = LeaveBlock(task[t], NoValue, "fetch")]
    /\ UNCHANGED <<db_conn_pool, pools, tlog>>

\* the pool a connection goes back to: the one the acquire context was made from
ReleaseTarget_CurrentRef(t) == db_conn_pool
ReleaseTarget(t) == task[t].acq

\* the connection is back in its pool; the call returns or re-raises
Release(t) ==
    /\ task[t].pc = "release"
    /\ pools' = [pools EXCEPT ![ReleaseTarget(t)].out = @ \ {t}]
    /\ task' = [task EXCEPT ![t] =
                  Finished([task[t] EXCEPT !.ref_at_release = db_conn_pool],
                           IF task[t].err = None THEN "done" ELSE "raised",
                           task[t].ret, task[t].err)]
    /\ UNCHANGED <<db_conn_pool, tlog>>

Next ==
    \/ \E t \in Tasks, dsn \in {None} \cup ExplicitDsns : CallCreate(t, dsn)
    \/ \E t \in Tasks : CreatePoolOk(t)
    \/ \E t \in Tasks : CreatePoolFail(t)
    \/ \E t \in Tasks : CallFetch(t)
    \/ \E t \in Tasks : Acquire(t)
    \/ \E t \in Tasks : AcquireFail(t)
    \/ \E t \in Tasks, attrs \in ConcAttributes : Prepare(t, attrs)
    \/ \E t \in Tasks : PrepareFail(t)
    \/ \E t \in Tasks : \E data \in ConcFetchResults(Len(task[t].attrs)) : Fetch(t, data)
    \/ \E t \in Tasks : FetchFail(t)
    \/ \E t \in Tasks : Release(t)

\* concurrent callers of both coroutines, all running one query
Spec == Init /\ [][Next]_vars

\* one caller of fetch_as_dataframe, every statement and every result within
\* the bounds
NextQuery ==
    \/ CallFetch(1)
    \/ CreatePoolOk(1)
    \/ CreatePoolFail(1)
    \/ Acquire(1)
    \/ AcquireFail(1)
    \/ \E attrs \in Attributes : Prepare(1, attrs)
    \/ PrepareFail(1)
    \/ \E data \in FetchResults(Len(task[1].attrs)) : Fetch(1, data)
    \/ FetchFail(1)
    \/ Release(1)

SpecQuery == Init /\ [][NextQuery]_vars

(* ---- the claims ---- *)

Over(t) == task[t].pc \in {"done", "raised"}
Holds(t, p) == t \in pools[p].out
PoolIds == 1..Len(pools)
\* the step in which the create_db_connection call of task t returns
CreateReturns(t) ==
    task[t].pc = "create_pool" /\ task'[t].pc \notin {"create_pool", "raised"}

\* C1: a fetch_as_dataframe call that finds config.db_conn_pool absent calls
\* create_db_connection exactly once, with no dsn argument, and holds a
\* connection only after that call has made a pool bound to config.dsn.
C1_LazyInitOnce ==
    /\ [][\A t \in Tasks :
            /\ (task[t].pc = "idle" /\ task'[t].op = "fetch" /\ db_conn_pool = Absent)
                 => /\ task'[t].pc = "create_pool"
                    /\ task'[t].inits = 1
                    /\ task'[t].dsn = None
            /\ task[t].op = "fetch" => task'[t].inits = task[t].inits]_vars
    /\ [](\A t \in Tasks :
            (task[t].op = "fetch" /\ task[t].inits = 1)
              => /\ task[t].pc = "create_pool"
                   => task[t].acq = Absent /\ \A p \in PoolIds : ~Holds(t, p)
                 /\ (task[t].acq # Absent \/ \E p \in PoolIds : Holds(t, p))
                   => /\ task[t].created \in PoolIds
                      /\ pools[task[t].created].dsn = config_dsn)
C1_Witness ==
    \E t \in Tasks :
        /\ task[t].op = "fetch" /\ task[t].inits = 1 /\ task[t].dsn = None
        /\ task[t].created \in PoolIds
        /\ Holds(t, task[t].created)
        /\ pools[task[t].created].dsn = config_dsn

\* C2: once a fetch_as_dataframe call is over, by return or by an exception
\* of prepare or fetch, no pool counts a connection as held by it.
C2_ReleasedOnEveryExit ==
    \A t \in Tasks : Over(t) => \A p \in PoolIds : ~Holds(t, p)
C2_Witness ==
    \E t, u \in Tasks :
        /\ task[t].pc = "raised" /\ task[t].err = "fetch"
        /\ task[u].pc = "done" /\ task[u].op = "fetch"
        /\ \A p \in PoolIds : pools[p].out = {}

\* C3: a call whose fetch returned N > 0 rows returns a table of N rows, the
\* i-th built from the i-th fetched record, under the statement's attribute
\* names in declared order.
C3_RowsAndColumns ==
    \A t \in Tasks :
        (task[t].pc = "done" /\ task[t].op = "fetch" /\ Len(task[t].data) > 0)
          => /\ task[t].ret.kind = "DataFrame"
             /\ Len(task[t].ret.rows) = Len(task[t].data)
             /\ Len(task[t].ret.columns) = Len(task[t].attrs)
             /\ \A j \in 1..Len(task[t].attrs) :
                    task[t].ret.columns[j] = task[t].attrs[j].name
             /\ \A i \in 1..Len(task[t].data) :
                    /\ Len(task[t].ret.rows[i]) = Len(task[t].attrs)
                    /\ \A j \in 1..Len(task[t].attrs) :
                        task[t].ret.rows[i][j] = <<task[t].attrs[j].name, task[t].data[i][j]>>
C3_Witness ==
    \E t \in Tasks :
        /\ task[t].pc = "done" /\ task[t].op = "fetch"
        /\ Len(task[t].data) = 2 /\ task[t].data[1] # task[t].data[2]
        /\ task[t].attrs = <<[name |-> "b"], [name |-> "a"]>>
        /\ task[t].ret.columns = <<"b", "a">>
        /\ Len(task[t].ret.rows) = 2

\* C4: a call whose fetch returned no row returns a table with no rows and no
\* columns, whatever attributes the statement declares.
C4_EmptyResult ==
    \A t \in Tasks :
        (task[t].pc = "done" /\ task[t].op = "fetch" /\ Len(task[t].data) = 0)
          => /\ task[t].ret.kind = "DataFrame"
             /\ task[t].ret.rows = <<>>
             /\ task[t].ret.columns = <<>>
C4_Witness ==
    \E t \in Tasks :
        /\ task[t].pc = "done" /\ task[t].op = "fetch"
        /\ Len(task[t].attrs) = 2 /\ task[t].data = <<>>
        /\ task[t].ret.columns = <<>> /\ task[t].ret.rows = <<>>

\* C5 as stated: the pool a create_db_connection call makes is bound to the
\* dsn it was given, for every string given; to config.dsn only when none was.
C5_Original ==
    \A t \in Tasks :
        task[t].created \in PoolIds
          => pools[task[t].created].dsn =
                IF task[t].dsn # None THEN task[t].dsn ELSE config_dsn
\* C5 as amended: the pool is bound to the dsn given when that is a non-empty
\* string, and to config.dsn when no dsn or the empty string was given.
C5_ExplicitDsn ==
    \A t \in Tasks :
        task[t].created \in PoolIds
          => pools[task[t].created].dsn =
                IF task[t].dsn \in {None, ""} THEN config_dsn ELSE task[t].dsn
C5_Witness ==
    \E t, u \in Tasks :
        /\ task[t].created \in PoolIds /\ task[t].dsn = "dsn_explicit"
        /\ pools[task[t].created].dsn = "dsn_explicit"
        /\ task[u].created \in PoolIds /\ task[u].dsn = ""
        /\ pools[task[u].created].dsn = config_dsn

\* C6: while the only callers are fetch_as_dataframe calls, config.db_conn_pool
\* is assigned at most once.
C6_WrittenOnce ==
    (\A t \in Tasks : task[t].op # "create") => Len(pools) <= 1

\* C7: when two fetch_as_dataframe calls both found the reference absent and
\* both got through create_db_connection, each made a pool of its own and the
\* reference no longer names the earlier of the two.
C7_RacingInitTwoPools ==
    \A t, u \in Tasks :
        (/\ t # u
         /\ task[t].op = "fetch" /\ task[t].inits = 1 /\ task[t].created # Absent
         /\ task[u].op = "fetch" /\ task[u].inits = 1 /\ task[u].created # Absent
         /\ task[t].created <= task[u].created)
          => /\ task[t].created < task[u].created
             /\ task[u].created \in PoolIds
             /\ db_conn_pool >= task[u].created
C7_Witness ==
    \E t, u \in Tasks :
        /\ task[t].op = "fetch" /\ task[t].inits = 1 /\ task[t].created = 1
        /\ task[u].op = "fetch" /\ task[u].inits = 1 /\ task[u].created = 2
        /\ Len(pools) = 2
        /\ db_conn_pool = 2

\* C8: every create_db_connection call that returns has made a new pool and
\* pointed config.db_conn_pool at it, leaving every earlier pool as it was,
\* connections out included; no pool is ever closed.
C8_OverwritesWithoutCheck ==
    /\ [][\A t \in Tasks :
            CreateReturns(t)
              => /\ Len(pools') = Len(pools) + 1
                 /\ db_conn_pool' = Len(pools')
                 /\ task'[t].created = Len(pools')
                 /\ \A p \in PoolIds : pools'[p] = pools[p]]_vars
    /\ [](\A p \in PoolIds : ~pools[p].closed)
C8_Witness ==
    /\ Len(pools) >= 2
    /\ db_conn_pool = 2
    /\ pools[1].out # {}
    /\ ~pools[1].closed

\* C9: when create_pool raises, the call raises the same error at once: the
\* reference, the pools and the log are as before, the task holds and awaits
\* no connection, and create_db_connection is not called again.
C9_CreateFailurePropagates ==
    /\ [][\A t \in Tasks :
            (task[t].pc = "create_pool" /\ task'[t].created = Absent
                /\ task'[t].pc # "create_pool")
              => /\ task'[t].pc = "raised"
                 /\ task'[t].err = "create_pool"
                 /\ db_conn_pool' = db_conn_pool
                 /\ pools' = pools
                 /\ tlog' = tlog]_vars
    /\ [](\A t \in Tasks :
            task[t].err = "create_pool"
              => /\ task[t].pc = "raised"
                 /\ task[t].inits = 1
                 /\ task[t].acq = Absent
                 /\ \A p \in PoolIds : ~Holds(t, p))
C9_Witness ==
    \E t \in Tasks :
        /\ task[t].op = "fetch" /\ task[t].pc = "raised"
        /\ task[t].err = "create_pool"
        /\ db_conn_pool = Absent /\ tlog = <<>>

\* C10: a connection is counted out of the pool it was acquired from and of no
\* other, whatever config.db_conn_pool names meanwhile; when no call is under
\* way, no pool has a connection out.
C10_ReleasedToOwnPool ==
    /\ \A p \in PoolIds : \A t \in pools[p].out :
            task[t].acq = p /\ task[t].pc \in {"prepare", "fetch", "release"}
    /\ (\A t \in Tasks : task[t].pc \in {"idle", "done", "raised"})
          => \A p \in PoolIds : pools[p].out = {}
C10_Witness ==
    \E t \in Tasks :
        /\ task[t].pc = "done" /\ task[t].op = "fetch"
        /\ task[t].acq = 1 /\ task[t].ref_at_release = 2
        /\ \A u \in Tasks : Over(u)
        /\ \A p \in PoolIds : pools[p].out = {}

====
